---- MODULE Spec2Model ----
(***************************************************************************)
(* A state-machine model of aigen.  The dataset layer:                     *)
(*   - TokenDataset (src/aigen/TokenDataset.py): construction in its five  *)
(*     modes, __len__, __getitem__, and merge_datasets;                    *)
(*   - StaticDataset and its merge_datasets (src/aigen/datasets.py);       *)
(*   - StreamingDataset / SequentialStreamingDataset iteration.            *)
(*   - get_dtype (src/aigen/TokenDataset.py).                              *)
(* The orchestrator (src/aigen/aigen.py): construction of the aigen        *)
(* object, generate with its retry loop, train and save.                   *)
(* Each family has a specification of its own (SpecTD, SpecMerge,          *)
(* SpecStream, SpecDtype, SpecInit, SpecGen, SpecTrain); the variables of  *)
(* the other families stay at their idle values.                           *)
(***************************************************************************)
EXTENDS Integers, Sequences, FiniteSets, TLC

VARIABLES
    datasets,      \* the dataset objects constructed so far, in creation order
    td_result,     \* what the last dataset operation was given and returned
    st_sequential, \* config["sequential"]: which streaming class was built
    st_block_size, \* params["block_size"] of the streaming dataset
    st_pc,         \* where the streaming dataset and its iterator stand
    st_batch,      \* the accumulator `batch` of __iter__
    st_consumed,   \* documents drawn from the source stream so far
    st_entered,    \* every token put on the accumulator so far, in order
    st_yielded,    \* the blocks yielded so far, each with the number of the
                   \* document in process and of the tokens entered by then
    ag_self,       \* the aigen object: its fields and its model
    ag_call,       \* the aigen call in progress or last finished
    ag_env,        \* process-wide state: the random seed, the file system
    gd_call        \* the last get_dtype call: its argument and its result

tdVars == <<datasets, td_result>>

stVars == <<st_sequential, st_block_size, st_pc, st_batch, st_consumed,
            st_entered, st_yielded>>

agVars == <<ag_self, ag_call, ag_env, gd_call>>

vars == <<datasets, td_result, st_sequential, st_block_size, st_pc, st_batch,
          st_consumed, st_entered, st_yielded, ag_self, ag_call, ag_env,
          gd_call>>

-----------------------------------------------------------------------------
(* Bounds of the model *)

\* longest flat token array (or row matrix) a source yields
MaxLen == 4
\* largest block_size
MaxBlock == 2
\* longest list handed to merge_datasets
MaxDatasets == 2
\* largest block_size of a streaming dataset
MaxStreamBlock == 4
\* most documents the source stream holds
MaxDocs == 4
\* most tokens one document puts on the accumulator
MaxDocTokens == 3
\* every vocabulary size from 1 up to this one is tried by get_dtype
MaxSmallVocab == 3
\* the maximum context length of the model
MaxContext == 2
\* longest text the model's output decodes to
MaxText == 2
\* the count of generation attempts of one call stops growing here
MaxAttempts == 2
\* most generate calls made on one aigen object
MaxCalls == 2
\* most adapters requested at construction
MaxAdapters == 2
\* most static datasets handed to train
MaxStaticData == 2
\* largest num_steps and save_every of a training run
MaxSteps == 2
\* largest val_interval of a training run
MaxInterval == 3
\* largest gradient_accumulation_steps of a training run
MaxAccum == 2
\* most examples in one static dataset
MaxExamples == 3
\* most streaming sources handed to prepare_datasets
MaxStreaming == 2
\* largest batch_size
MaxBatch == 2

-----------------------------------------------------------------------------
(* Python helpers *)

Min2(a, b) == IF a < b THEN a ELSE b

\* s[lo:hi] with Python's clamping of negative and out-of-range bounds
PySlice(s, lo, hi) ==
    LET n == Len(s)
        norm(x) == IF x < 0 THEN (IF x + n < 0 THEN 0 ELSE x + n)
                   ELSE (IF x > n THEN n ELSE x)
        a == norm(lo)
        b == norm(hi)
    IN IF a < b THEN SubSeq(s, a + 1, b) ELSE <<>>

\* min([...]) over a non-empty sequence of integers
RECURSIVE SeqMin(_)
SeqMin(s) ==
    IF Len(s) = 1 THEN s[1] ELSE Min2(s[1], SeqMin(Tail(s)))

\* The token array a source yields for the k-th object: every token is
\* distinct and names its source and position, so windows and merges can be
\* told apart.
SourceTokens(k, n) == [j \in 1..n |-> k * (MaxLen + 1) + (j - 1)]

-----------------------------------------------------------------------------
(* Results of an operation *)

\* op: the operation; its inputs (kind, mode, ntokens, block_size, ds, item,
\* is_list, equalize); status/err: normal return or the error raised;
\* value: the tokens returned; len: the length returned; obj: the object
\* constructed, as a sequence of zero or one object.
NoResult ==
    [op |-> "none", kind |-> "none", mode |-> "none", ntokens |-> 0,
     block_size |-> 0, ds |-> 0, item |-> 0,
     is_list |-> TRUE, equalize |-> FALSE,
     status |-> "ok", err |-> "none", value |-> <<>>, len |-> 0,
     obj |-> <<>>]

Modes == {"tokenized", "cache", "texts", "line_by_line", "bulk"}

-----------------------------------------------------------------------------
(* TokenDataset.__init__ *)

\* mutant: the example count taken to include the window at L - B
NumSubsetsInclusive(toks, block_size) == Len(toks) - block_size + 1

\* num_subsets as every branch of __init__ computes it
NumSubsets(toks, block_size) == Len(toks) - block_size

\* the insufficient-data assertion of the encoding modes
EnoughTokens(toks, block_size) == Len(toks) >= block_size

\* The outcome of TokenDataset(...) in `mode`, where `toks` is the token
\* array the mode's source yields (the pre-tokenized list, the cached array,
\* or the encoder's output) and `present` says whether the file exists.
\* Returns [ok, err, obj].
TokenDatasetInit(mode, toks, block_size, present) ==
    LET obj(fp, suffix, lbl) ==
            [kind |-> "token", tokens |-> toks,
             num_subsets |-> NumSubsets(toks, block_size),
             block_size |-> block_size, file_path |-> fp,
             str_suffix |-> suffix, line_by_line |-> lbl]
        fail(e) == [ok |-> FALSE, err |-> e, obj |-> <<>>]
        good(o) == [ok |-> TRUE, err |-> "none", obj |-> <<o>>]
    IN CASE mode = "tokenized" ->
              \* `if tokenized_texts:` is false for an empty list, and the
              \* caller (merge_datasets) gives neither texts nor file_path
              IF toks # <<>>
              THEN good(obj("merged TokenDataset", "by merging TokenDatasets.", FALSE))
              ELSE fail("texts or file_path must be specified.")
         [] mode = "cache" ->
              \* returns before the insufficient-data assertion; file_path
              \* is never assigned on this path
              IF ~present THEN fail("FileNotFoundError")
              ELSE good(obj("unset", "via cache.", FALSE))
         [] mode = "texts" ->
              IF EnoughTokens(toks, block_size)
              THEN good(obj("unset", "via application.", FALSE))
              ELSE fail("There are fewer than block_size encoded tokens.")
         [] mode = "line_by_line" ->
              IF ~present THEN fail("file is not present in the current directory.")
              ELSE IF EnoughTokens(toks, block_size)
              THEN good(obj("file", "from line-by-line file", TRUE))
              ELSE fail("There are fewer than block_size encoded tokens.")
         [] OTHER ->
              IF ~present THEN fail("file is not present in the current directory.")
              ELSE IF EnoughTokens(toks, block_size)
              THEN good(obj("file", "from file", FALSE))
              ELSE fail("There are fewer than block_size encoded tokens.")

\* TokenDataset.__len__ (what the method returns)
TokenLen(d) == d.num_subsets

\* mutant: the window cut one token short
GetItemShort(d, item) == PySlice(d.tokens, item, item + d.block_size - 1)

\* TokenDataset.__getitem__
GetItem(d, item) == PySlice(d.tokens, item, item + d.block_size)

\* Python's len(obj): a negative __len__ is a ValueError
BuiltinLen(n) ==
    IF n < 0 THEN [ok |-> FALSE, err |-> "ValueError: __len__() should return >= 0", len |-> 0]
    ELSE [ok |-> TRUE, err |-> "none", len |-> n]

-----------------------------------------------------------------------------
(* The operations on one TokenDataset: specification SpecTD *)

ItemRange == (0 - MaxLen)..(MaxLen + 1)

\* TokenDataset(...) in any of its modes; the new object replaces the one
\* under test.
TDConstruct ==
    /\ UNCHANGED <<stVars, agVars>>
    /\ \E mode \in Modes, n \in 0..MaxLen, block_size \in 1..MaxBlock, present \in BOOLEAN :
        LET r == TokenDatasetInit(mode, SourceTokens(1, n), block_size, present)
        IN /\ datasets' = IF r.ok THEN r.obj ELSE datasets
           /\ td_result' = [NoResult EXCEPT !.op = "construct", !.kind = "token",
                               !.mode = mode, !.ntokens = n,
                               !.block_size = block_size,
                               !.status = IF r.ok THEN "ok" ELSE "error",
                               !.err = r.err, !.obj = r.obj]

\* dataset[item]
TDGetItem ==
    /\ datasets # <<>>
    /\ \E item \in ItemRange :
        /\ td_result' = [NoResult EXCEPT !.op = "getitem", !.kind = "token",
                            !.ds = 1, !.item = item,
                            !.value = GetItem(datasets[1], item)]
        /\ UNCHANGED <<datasets, stVars, agVars>>

\* len(dataset)
TDLen ==
    /\ datasets # <<>>
    /\ LET r == BuiltinLen(TokenLen(datasets[1]))
       IN td_result' = [NoResult EXCEPT !.op = "len", !.kind = "token", !.ds = 1,
                           !.status = IF r.ok THEN "ok" ELSE "error",
                           !.err = r.err, !.len = r.len]
    /\ UNCHANGED <<datasets, stVars, agVars>>

\* no aigen object yet: the fields __init__ sets first, nothing loaded
NoAigen ==
    [exists |-> FALSE, mode |-> "transformer", memory |-> <<>>,
     petals |-> FALSE, source |-> "none", max_len |-> 0, adapters |-> <<>>,
     active_adapter |-> <<>>, training |-> FALSE]

\* no aigen call made yet
NoCall ==
    [op |-> "none", pc |-> "idle", args |-> <<>>, err |-> "none",
     err_names |-> <<>>, value |-> <<>>, raw |-> <<>>, log |-> <<>>,
     gen_calls |-> 0, memory_in |-> <<>>, states |-> {}]

\* the process before any call: the random state is not fixed to a seed,
\* output_dir holds no saved model, no cache file is written, and gradient
\* tracking is on (torch's default)
NoEnv ==
    [seed |-> <<>>, calls |-> 0, artifacts |-> 0, cache_file |-> <<>>,
     grad_enabled |-> TRUE]

\* no get_dtype call made yet
NoDtype ==
    [called |-> FALSE, vocab_size |-> <<0, 0, 0, 0>>, token |-> <<0, 0, 0, 0>>,
     bits |-> 0]

\* no aigen object, no call
AigenIdle ==
    /\ ag_self = NoAigen
    /\ ag_call = NoCall
    /\ ag_env = NoEnv
    /\ gd_call = NoDtype

\* no streaming dataset
StreamIdle ==
    /\ st_sequential = FALSE
    /\ st_block_size = 0
    /\ st_pc = "new"
    /\ st_batch = <<>>
    /\ st_consumed = 0
    /\ st_entered = <<>>
    /\ st_yielded = <<>>

InitTD ==
    /\ datasets = <<>>
    /\ td_result = NoResult
    /\ StreamIdle
    /\ AigenIdle

NextTD == TDConstruct \/ TDGetItem \/ TDLen

SpecTD == InitTD /\ [][NextTD]_vars

-----------------------------------------------------------------------------
(* StaticDataset.__init__ and __len__ (datasets.py) *)

\* The outcome of StaticDataset(...) in `mode`, where `rows` is the matrix of
\* blocks the source yields (one value per row), `present` says whether the
\* file exists and `tokenizer` whether a tokenizer was given.
StaticDatasetInit(mode, rows, block_size, present, tokenizer) ==
    LET obj(fp, lbl) ==
            [kind |-> "static", tokens |-> rows, block_size |-> block_size,
             file_path |-> fp, line_by_line |-> lbl]
        fail(e) == [ok |-> FALSE, err |-> e, obj |-> <<>>]
        good(o) == [ok |-> TRUE, err |-> "none", obj |-> <<o>>]
    IN CASE mode = "tokenized" ->
              IF rows # <<>> THEN good(obj("unset", FALSE))
              ELSE fail("texts or file_path must be specified.")
         [] mode = "cache" ->
              IF ~present THEN fail("FileNotFoundError")
              ELSE good(obj("unset", FALSE))
         [] mode = "texts" ->
              \* no file_path: os.path.isfile(None) raises
              IF ~tokenizer THEN fail("A tokenizer must be specified.")
              ELSE fail("TypeError")
         [] OTHER ->
              IF ~tokenizer THEN fail("A tokenizer must be specified.")
              ELSE IF ~present THEN fail("file is not present in the current directory.")
              ELSE good(obj("file", mode = "line_by_line"))

\* StaticDataset.__len__
StaticLen(d) == Len(d.tokens)

-----------------------------------------------------------------------------
(* merge_datasets, TokenDataset.py and datasets.py *)

\* the arity assertion that opens both merge_datasets
IsListOfMultiple(is_list, args) == is_list /\ Len(args) > 1

\* the block-size assertion inside the loop of merge_datasets (TokenDataset.py)
TokenSameBlockSize(d, block_size) == d.block_size = block_size

\* the block-size assertion inside the loop of merge_datasets (datasets.py)
StaticSameBlockSize(d, block_size) == d.block_size = block_size

\* what one input contributes to tokenized_texts
Contribution(d, equalize, len_smallest) ==
    IF equalize THEN PySlice(d.tokens, 0, len_smallest) ELSE d.tokens

\* the loop of merge_datasets (TokenDataset.py) from input i on, with
\* tokenized_texts = acc so far
RECURSIVE TokenMergeLoop(_, _, _, _, _, _)
TokenMergeLoop(args, i, block_size, equalize, len_smallest, acc) ==
    IF i > Len(args) THEN [ok |-> TRUE, toks |-> acc]
    ELSE IF ~TokenSameBlockSize(args[i], block_size)
         THEN [ok |-> FALSE, toks |-> <<>>]
         ELSE TokenMergeLoop(args, i + 1, block_size, equalize, len_smallest,
                             acc \o Contribution(args[i], equalize, len_smallest))

\* merge_datasets(datasets, equalize) of TokenDataset.py; args are the objects
TokenMergeDatasets(is_list, args, equalize) ==
    LET fail(e) == [ok |-> FALSE, err |-> e, obj |-> <<>>]
        lens == [i \in 1..Len(args) |-> BuiltinLen(TokenLen(args[i]))]
    IN IF ~IsListOfMultiple(is_list, args)
       THEN fail("datasets must be a list of multiple datasets.")
       ELSE IF \E i \in 1..Len(args) : ~lens[i].ok
       THEN fail("ValueError: __len__() should return >= 0")
       ELSE LET len_smallest == SeqMin([i \in 1..Len(args) |-> lens[i].len])
                block_size == args[1].block_size
                r == TokenMergeLoop(args, 1, block_size, equalize, len_smallest, <<>>)
            IN IF ~r.ok THEN fail("The input datasets have different block sizes.")
               ELSE TokenDatasetInit("tokenized", r.toks, block_size, TRUE)

\* the loop of merge_datasets (datasets.py)
RECURSIVE StaticMergeLoop(_, _, _, _, _, _)
StaticMergeLoop(args, i, block_size, equalize, len_smallest, acc) ==
    IF i > Len(args) THEN [ok |-> TRUE, toks |-> acc]
    ELSE IF ~StaticSameBlockSize(args[i], block_size)
         THEN [ok |-> FALSE, toks |-> <<>>]
         ELSE StaticMergeLoop(args, i + 1, block_size, equalize, len_smallest,
                              acc \o Contribution(args[i], equalize, len_smallest))

\* merge_datasets(datasets, equalize) of datasets.py
StaticMergeDatasets(is_list, args, equalize) ==
    LET fail(e) == [ok |-> FALSE, err |-> e, obj |-> <<>>]
    IN IF ~IsListOfMultiple(is_list, args)
       THEN fail("datasets must be a list of multiple datasets.")
       ELSE LET len_smallest == SeqMin([i \in 1..Len(args) |-> StaticLen(args[i])])
                block_size == args[1].block_size
                r == StaticMergeLoop(args, 1, block_size, equalize, len_smallest, <<>>)
            IN IF ~r.ok THEN fail("The input datasets have different block sizes.")
               ELSE StaticDatasetInit("tokenized", r.toks, block_size, TRUE, FALSE)

-----------------------------------------------------------------------------
(* Building a list of datasets and merging it: specification SpecMerge.    *)
(* `datasets` is the list handed to merge_datasets; each behaviour builds  *)
(* a list of one family and applies merge_datasets to it once.             *)

Family(kind) == \A i \in 1..Len(datasets) : datasets[i].kind = kind

\* a TokenDataset is built, in any mode, and appended to the list
MConstructToken ==
    /\ td_result.op = "none"
    /\ Len(datasets) < MaxDatasets
    /\ Family("token")
    /\ \E mode \in Modes, n \in 0..MaxLen, block_size \in 1..MaxBlock :
        LET r == TokenDatasetInit(mode, SourceTokens(Len(datasets) + 1, n),
                                  block_size, TRUE)
        IN /\ r.ok
           /\ datasets' = datasets \o r.obj
    /\ UNCHANGED <<td_result, stVars, agVars>>

\* a StaticDataset is built, in any mode, and appended to the list
MConstructStatic ==
    /\ td_result.op = "none"
    /\ Len(datasets) < MaxDatasets
    /\ Family("static")
    /\ \E mode \in Modes, n \in 0..MaxLen, block_size \in 1..MaxBlock :
        LET r == StaticDatasetInit(mode, SourceTokens(Len(datasets) + 1, n),
                                   block_size, TRUE, TRUE)
        IN /\ r.ok
           /\ datasets' = datasets \o r.obj
    /\ UNCHANGED <<td_result, stVars, agVars>>

\* merge_datasets of TokenDataset.py is called on the list (or, with
\* is_list false, on the same objects in something that is not a list)
MergeToken ==
    /\ td_result.op = "none"
    /\ Family("token")
    /\ \E equalize \in BOOLEAN, is_list \in BOOLEAN :
        LET r == TokenMergeDatasets(is_list, datasets, equalize)
        IN td_result' = [NoResult EXCEPT !.op = "merge", !.kind = "token",
                            !.is_list = is_list, !.equalize = equalize,
                            !.status = IF r.ok THEN "ok" ELSE "error",
                            !.err = r.err, !.obj = r.obj]
    /\ UNCHANGED <<datasets, stVars, agVars>>

\* merge_datasets of datasets.py is called on the list
MergeStatic ==
    /\ td_result.op = "none"
    /\ Family("static")
    /\ \E equalize \in BOOLEAN, is_list \in BOOLEAN :
        LET r == StaticMergeDatasets(is_list, datasets, equalize)
        IN td_result' = [NoResult EXCEPT !.op = "merge", !.kind = "static",
                            !.is_list = is_list, !.equalize = equalize,
                            !.status = IF r.ok THEN "ok" ELSE "error",
                            !.err = r.err, !.obj = r.obj]
    /\ UNCHANGED <<datasets, stVars, agVars>>

InitMerge ==
    /\ datasets = <<>>
    /\ td_result = NoResult
    /\ StreamIdle
    /\ AigenIdle

NextMerge == MConstructToken \/ MConstructStatic \/ MergeToken \/ MergeStatic

SpecMerge == InitMerge /\ [][NextMerge]_vars

-----------------------------------------------------------------------------
(* StreamingDataset and SequentialStreamingDataset (datasets.py)           *)
(*                                                                         *)
(* st_pc: "new" (nothing built), "constructed" (__init__ returned),        *)
(* "fetch" (the generator is about to draw the next document), "drain"     *)
(* (sequential: at the test of the while loop), "yielded" (random: the     *)
(* generator is suspended at its yield), "error" (the divisibility         *)
(* assertion failed), "done" (the source stream ended).                    *)
(* Tokens are numbered by their place in the order they enter the          *)
(* accumulator; the tokenizer's eos_token_id is 0.                         *)

eos_token_id == 0

\* the tokens a document puts on the accumulator, n of them
DocTokens(n) == [j \in 1..n |-> Len(st_entered) + j]

\* mutant: no divisibility assertion
BlockSizeAny(block_size) == TRUE

\* the assertion of SequentialStreamingDataset.__iter__
BlockSizeEven(block_size) == block_size % 2 = 0

\* half_block = int(block_size / 2)
HalfBlock(block_size) == block_size \div 2

\* mutant: a new document replaces what is pending on the accumulator
AccumulateReplace(batch, tokens) == tokens

\* for block in tokens: batch = np.concatenate([batch, block])
Accumulate(batch, tokens) == batch \o tokens

\* mutant: the accumulator moves on by a whole block
AdvanceWhole(batch, half_block) == PySlice(batch, 2 * half_block, Len(batch))

\* batch = batch[half_block:]
Advance(batch, half_block) == PySlice(batch, half_block, Len(batch))

\* mutant: what lies beyond the yielded block is carried forward
CarryRemainder(batch, block_size) == PySlice(batch, block_size, Len(batch))

\* batch = [] after the yield of StreamingDataset.__iter__
ResetBatch(batch, block_size) == <<>>

\* StreamingDataset.__init__, by StreamingDataModule.setup: the class is
\* chosen by config["sequential"]; nothing is drawn from the source
StreamConstruct ==
    /\ st_pc = "new"
    /\ \E sequential \in BOOLEAN, block_size \in 1..MaxStreamBlock :
        /\ st_sequential' = sequential
        /\ st_block_size' = block_size
    /\ st_pc' = "constructed"
    /\ UNCHANGED <<st_batch, st_consumed, st_entered, st_yielded, tdVars, agVars>>

\* the first step of SequentialStreamingDataset.__iter__: the lazy shuffle,
\* the divisibility assertion, batch = np.array([])
SeqIterStart ==
    /\ st_pc = "constructed"
    /\ st_sequential
    /\ st_pc' = IF BlockSizeEven(st_block_size) THEN "fetch" ELSE "error"
    /\ st_batch' = <<>>
    /\ UNCHANGED <<st_sequential, st_block_size, st_consumed, st_entered,
                   st_yielded, tdVars, agVars>>

\* the next document is drawn and tokenized into n tokens, which go on the
\* accumulator; a batch still short of block_size is left pending (the
\* np.append of the eos id discards its result)
SeqConsume ==
    /\ st_pc = "fetch"
    /\ st_sequential
    /\ st_consumed < MaxDocs
    /\ \E n \in 0..MaxDocTokens :
        LET batch == IF n = 0 THEN st_batch
                     ELSE Accumulate(st_batch, DocTokens(n))
        IN /\ st_batch' = batch
           /\ st_entered' = st_entered \o DocTokens(n)
           /\ st_pc' = IF n = 0 \/ Len(batch) < st_block_size
                       THEN "fetch" ELSE "drain"
    /\ st_consumed' = st_consumed + 1
    /\ UNCHANGED <<st_sequential, st_block_size, st_yielded, tdVars, agVars>>

\* one round of `while len(batch) >= block_size`: the leading block is
\* selected, the accumulator advances by half a block, the block is yielded
SeqYield ==
    /\ st_pc = "drain"
    /\ st_sequential
    /\ LET selection == PySlice(st_batch, 0, st_block_size)
           batch == Advance(st_batch, HalfBlock(st_block_size))
       IN /\ st_batch' = batch
          /\ st_yielded' = Append(st_yielded, [block |-> selection, doc |-> st_consumed,
                                               upto |-> Len(st_entered)])
          /\ st_pc' = IF Len(batch) >= st_block_size THEN "drain" ELSE "fetch"
    /\ UNCHANGED <<st_sequential, st_block_size, st_consumed, st_entered, tdVars, agVars>>

\* the first step of StreamingDataset.__iter__: the lazy shuffle, batch = []
RandIterStart ==
    /\ st_pc = "constructed"
    /\ ~st_sequential
    /\ st_pc' = "fetch"
    /\ st_batch' = <<>>
    /\ UNCHANGED <<st_sequential, st_block_size, st_consumed, st_entered,
                   st_yielded, tdVars, agVars>>

\* the next document is drawn and one of its chunks, of n <= block_size
\* tokens, is chosen; an empty choice is skipped; otherwise the chunk goes on
\* the accumulator (np.append of the eos id discards its result) and, once
\* block_size is reached, the leading block is yielded
RandConsume ==
    /\ st_pc = "fetch"
    /\ ~st_sequential
    /\ st_consumed < MaxDocs
    /\ \E n \in 0..Min2(MaxDocTokens, st_block_size) :
        LET choice == DocTokens(n)
            batch == IF Len(choice) = 0 THEN st_batch
                     ELSE IF Len(st_batch) = 0 THEN choice
                     ELSE st_batch \o choice
            full == Len(choice) # 0 /\ Len(batch) >= st_block_size
        IN /\ st_batch' = batch
           /\ st_entered' = st_entered \o choice
           /\ st_yielded' =
                 IF full
                 THEN Append(st_yielded, [block |-> PySlice(batch, 0, st_block_size),
                                          doc |-> st_consumed + 1,
                                          upto |-> Len(st_entered) + n])
                 ELSE st_yielded
           /\ st_pc' = IF full THEN "yielded" ELSE "fetch"
    /\ st_consumed' = st_consumed + 1
    /\ UNCHANGED <<st_sequential, st_block_size, tdVars, agVars>>

\* the generator resumes after its yield: batch = []
RandResume ==
    /\ st_pc = "yielded"
    /\ ~st_sequential
    /\ st_batch' = ResetBatch(st_batch, st_block_size)
    /\ st_pc' = "fetch"
    /\ UNCHANGED <<st_sequential, st_block_size, st_consumed, st_entered,
                   st_yielded, tdVars, agVars>>

\* the source stream has no further document: the for loop and the
\* generator end
StreamEnd ==
    /\ st_pc = "fetch"
    /\ st_pc' = "done"
    /\ UNCHANGED <<st_sequential, st_block_size, st_batch, st_consumed,
                   st_entered, st_yielded, tdVars, agVars>>

InitStream ==
    /\ datasets = <<>>
    /\ td_result = NoResult
    /\ StreamIdle
    /\ AigenIdle

NextStream ==
    \/ StreamConstruct
    \/ SeqIterStart
    \/ SeqConsume
    \/ SeqYield
    \/ RandIterStart
    \/ RandConsume
    \/ RandResume
    \/ StreamEnd

SpecStream == InitStream /\ [][NextStream]_vars

-----------------------------------------------------------------------------
(* Claims about one TokenDataset, checked under SpecTD *)

Range(s) == {s[j] : j \in 1..Len(s)}

\* the explicit window tokens[i .. i+B-1] (0-based i) of a flat array
Window(toks, i, B) == [j \in 1..B |-> toks[i + j]]

\* the last operation was dataset[item] on a dataset of L >= B tokens
GotItem ==
    /\ td_result.op = "getitem"
    /\ datasets # <<>>
    /\ Len(datasets[1].tokens) >= datasets[1].block_size

\* C1: for a TokenDataset over a flat array of length L >= B, len(dataset)
\* is L - B, and dataset[i] for every i in 0 .. len-1 is exactly the B
\* consecutive tokens tokens[i .. i+B-1], in order.
C1_LenAndWindows ==
    /\ (td_result.op = "len" /\ Len(datasets[1].tokens) >= datasets[1].block_size)
         => /\ td_result.status = "ok"
            /\ td_result.len = Len(datasets[1].tokens) - datasets[1].block_size
    /\ (GotItem /\ td_result.item \in 0..(datasets[1].num_subsets - 1))
         => /\ td_result.status = "ok"
            /\ td_result.value =
                 Window(datasets[1].tokens, td_result.item, datasets[1].block_size)

\* C1 witness: an interior window (neither the first nor of a minimal array) was read
C1_Witness ==
    /\ GotItem
    /\ td_result.item > 0
    /\ td_result.item = datasets[1].num_subsets - 1
    /\ datasets[1].block_size > 1
    /\ Len(td_result.value) = datasets[1].block_size

\* the last operation read the last valid index L-B-1 of a dataset with L > B
GotLastValid ==
    /\ GotItem
    /\ Len(datasets[1].tokens) > datasets[1].block_size
    /\ td_result.item = Len(datasets[1].tokens) - datasets[1].block_size - 1

\* C2 as stated: the window at the last valid index L-B-1 is the last B
\* tokens of the array (so the final token is reachable).
C2_LastWindowIsTail ==
    GotLastValid =>
        td_result.value =
            SubSeq(datasets[1].tokens,
                   Len(datasets[1].tokens) - datasets[1].block_size + 1,
                   Len(datasets[1].tokens))

\* C2 amended: the window at the last valid index L-B-1 is tokens[L-B-1 .. L-2],
\* the B tokens that end one before the final token; every token but the
\* final one is in some window at an index in 0 .. len-1, and the final token
\* (at position L-1) is in none of them.
C2_LastWindowStopsBeforeFinal ==
    /\ GotLastValid =>
          td_result.value =
              SubSeq(datasets[1].tokens,
                     Len(datasets[1].tokens) - datasets[1].block_size,
                     Len(datasets[1].tokens) - 1)
    /\ \A k \in 1..Len(datasets) :
          LET d == datasets[k]
              L == Len(d.tokens)
              valid == 0..(TokenLen(d) - 1)
          IN L > d.block_size =>
               /\ \A p \in 1..(L - 1) :
                     \E i \in valid : \E j \in 1..Len(GetItem(d, i)) :
                         /\ GetItem(d, i)[j] = d.tokens[p]
                         /\ i + j = p
               /\ \A i \in valid : \A j \in 1..Len(GetItem(d, i)) : i + j # L

\* C2 witness: the last valid index of a dataset with L > B was read
C2_Witness ==
    /\ GotLastValid
    /\ datasets[1].block_size > 1
    /\ td_result.value # <<>>

\* C3 as stated: dataset[L-B], one past the last valid index, is an error and
\* never returns a window.
C3_OnePastIsError ==
    (GotItem /\ td_result.item = Len(datasets[1].tokens) - datasets[1].block_size)
        => /\ td_result.status = "error"
           /\ td_result.value = <<>>

\* C4 as stated: no TokenDataset exists whose flat array is shorter than its
\* block_size; in every construction mode such an array makes construction
\* fail with the insufficient-data error, so len(dataset) >= 0 always.
C4_NeverShorterThanBlock ==
    /\ \A k \in 1..Len(datasets) :
          datasets[k].kind = "token" =>
              /\ Len(datasets[k].tokens) >= datasets[k].block_size
              /\ TokenLen(datasets[k]) >= 0
    /\ (td_result.op = "construct" /\ td_result.kind = "token"
           /\ td_result.ntokens < td_result.block_size)
         => /\ td_result.status = "error"
            /\ td_result.obj = <<>>
            /\ td_result.ntokens > 0 =>
                  td_result.err \in {"There are fewer than block_size encoded tokens.",
                                     "file is not present in the current directory.",
                                     "FileNotFoundError"}

-----------------------------------------------------------------------------
(* Claims about merge_datasets, checked under SpecMerge *)

\* the inputs of the merge all have the block_size of the first
EqualBlockSizes ==
    \A i \in 1..Len(datasets) : datasets[i].block_size = datasets[1].block_size

\* the flat token length of the smallest input
SmallestFlatLength == SeqMin([i \in 1..Len(datasets) |-> Len(datasets[i].tokens)])

\* the concatenation, in input order, of the first n tokens of each input
RECURSIVE ConcatFirst(_, _)
ConcatFirst(ds, n) ==
    IF ds = <<>> THEN <<>>
    ELSE SubSeq(ds[1].tokens, 1, Min2(n, Len(ds[1].tokens))) \o ConcatFirst(Tail(ds), n)

\* the concatenation, in input order, of all tokens of each input
RECURSIVE ConcatAll(_)
ConcatAll(ds) ==
    IF ds = <<>> THEN <<>> ELSE ds[1].tokens \o ConcatAll(Tail(ds))

\* merge_datasets of TokenDataset.py was called on a list of two or more
\* TokenDatasets of equal block_size, each holding at least block_size tokens
MergedTokenLists ==
    /\ td_result.op = "merge"
    /\ td_result.kind = "token"
    /\ td_result.is_list
    /\ Len(datasets) >= 2
    /\ EqualBlockSizes
    /\ \A i \in 1..Len(datasets) : Len(datasets[i].tokens) >= datasets[i].block_size

\* C5 as stated: merge_datasets over two or more TokenDatasets of equal
\* block_size returns a TokenDataset of that block_size whose flat tokens are
\* the concatenation, in input order, of the first N tokens of each input
\* (equalize; N the flat token length of the smallest input) or of all
\* tokens of each input (no equalize).
C5_MergeConcatenates ==
    MergedTokenLists =>
        /\ td_result.status = "ok"
        /\ Len(td_result.obj) = 1
        /\ td_result.obj[1].block_size = datasets[1].block_size
        /\ td_result.obj[1].tokens =
              IF td_result.equalize
              THEN ConcatFirst(datasets, SmallestFlatLength)
              ELSE ConcatAll(datasets)

InvalidInputErrors ==
    {"datasets must be a list of multiple datasets.",
     "The input datasets have different block sizes."}

\* C6 as stated: either merge_datasets, called with a list of fewer than two
\* datasets or with datasets of differing block_size, fails with an
\* invalid-input error, constructs no merged dataset and leaves the inputs
\* unchanged.
C6_InvalidMergeFails ==
    [][(/\ td_result'.op = "merge"
        /\ td_result.op = "none"
        /\ td_result'.is_list
        /\ (Len(datasets) < 2 \/ ~EqualBlockSizes))
       => (/\ td_result'.status = "error"
           /\ td_result'.err \in InvalidInputErrors
           /\ td_result'.obj = <<>>
           /\ datasets' = datasets)]_vars

-----------------------------------------------------------------------------
(* Claims about the streaming datasets, checked under SpecStream *)

\* a SequentialStreamingDataset with an odd block_size has been constructed
OddSequential ==
    /\ st_pc # "new"
    /\ st_sequential
    /\ st_block_size % 2 = 1

\* C7 as stated: a SequentialStreamingDataset constructed with an odd
\* block_size has failed with the divisibility error, with no document
\* consumed and no block yielded.
C7_OddFailsAtConstruction ==
    OddSequential =>
        /\ st_pc = "error"
        /\ st_consumed = 0
        /\ st_yielded = <<>>

\* C7 amended: construction with an odd block_size succeeds; the
\* divisibility error is raised by the first step of iteration, so the
\* dataset is either constructed and not yet iterated or failed, and in both
\* no document was consumed and no block yielded.
C7_OddFailsAtIterationStart ==
    OddSequential =>
        /\ st_pc \in {"constructed", "error"}
        /\ st_consumed = 0
        /\ st_entered = <<>>
        /\ st_yielded = <<>>

\* C7 witness: the iteration of an odd-sized sequential dataset has failed
C7_Witness ==
    /\ OddSequential
    /\ st_block_size > 1
    /\ st_pc = "error"

\* the place in the entered stream where yielded block i starts (1-based)
BlockStart(i) == (i - 1) * HalfBlock(st_block_size) + 1

\* C8: in sequential iteration with even block_size B every yielded block
\* has exactly B tokens, and of two consecutive blocks the second starts B/2
\* tokens after the first in the stream of document tokens, so they overlap
\* in exactly B/2 positions, also when they were yielded for different
\* documents.
C8_HalfBlockOverlap ==
    (st_sequential /\ st_block_size % 2 = 0) =>
        LET B == st_block_size
            H == B \div 2
        IN /\ \A i \in 1..Len(st_yielded) : Len(st_yielded[i].block) = B
           /\ \A i \in 1..(Len(st_yielded) - 1) :
                LET a == st_yielded[i].block
                    b == st_yielded[i + 1].block
                IN /\ b[1] = a[1] + H
                   /\ SubSeq(a, H + 1, B) = SubSeq(b, 1, H)
                   /\ Cardinality(Range(a) \cap Range(b)) = H
           /\ \A i \in 1..Len(st_yielded) :
                st_yielded[i].block
                    = SubSeq(st_entered, st_yielded[i].block[1],
                             st_yielded[i].block[1] + B - 1)

\* C8 witness: two consecutive blocks of more than two tokens were yielded
\* while processing different documents, and two while processing one
C8_Witness ==
    /\ st_sequential
    /\ st_block_size > 2
    /\ \E i \in 1..(Len(st_yielded) - 1) : st_yielded[i].doc # st_yielded[i + 1].doc
    /\ \E i \in 1..(Len(st_yielded) - 1) : st_yielded[i].doc = st_yielded[i + 1].doc

\* the tokens that were yielded in some block
YieldedTokens == UNION {Range(st_yielded[i].block) : i \in 1..Len(st_yielded)}

\* C9 as stated: when sequential iteration over a finite sequence of
\* documents ends, every token that entered the accumulator is in at least
\* one yielded block.
C9_AllTokensYielded ==
    (st_sequential /\ st_pc = "done") => Range(st_entered) \subseteq YieldedTokens

\* C9 amended: the blocks are consecutive segments of the entered stream, in
\* arrival order, that together cover a prefix of it; the tokens not yielded
\* are the trailing tokens still on the accumulator, and whenever the next
\* document is awaited or iteration has ended they number fewer than B/2 if a
\* block was yielded and fewer than B otherwise: they are dropped when the
\* stream ends.
C9_OnlyTailUnyielded ==
    (st_sequential /\ st_pc \in {"fetch", "drain", "done"}) =>
        LET B == st_block_size
            H == B \div 2
            k == Len(st_yielded)
            covered == IF k = 0 THEN 0 ELSE (k - 1) * H + B
            missing == Len(st_entered) - covered
        IN /\ \A i \in 1..k :
                st_yielded[i].block = SubSeq(st_entered, BlockStart(i), BlockStart(i) + B - 1)
           /\ missing >= 0
           /\ YieldedTokens = Range(SubSeq(st_entered, 1, covered))
           /\ Range(st_entered) \ YieldedTokens \subseteq Range(st_batch)
           /\ st_batch = SubSeq(st_entered, k * H + 1, Len(st_entered))
           /\ st_pc \in {"fetch", "done"} =>
                 IF k = 0 THEN missing < B ELSE missing < H

\* C9 witness: iteration ended after at least two blocks with a token that
\* entered the accumulator and was never yielded
C9_Witness ==
    /\ st_sequential
    /\ st_pc = "done"
    /\ Len(st_yielded) >= 2
    /\ Range(st_entered) \ YieldedTokens # {}

\* C10: in random-packing iteration every yielded block has exactly
\* block_size tokens and is the leading block_size tokens of the
\* accumulator; right after a yield the accumulator is emptied, whatever lay
\* beyond block_size is in no later block, and whenever the next document is
\* awaited the accumulator holds fewer than block_size tokens.
C10_YieldThenReset ==
    [][(~st_sequential') =>
        /\ \A i \in 1..Len(st_yielded') : Len(st_yielded'[i].block) = st_block_size'
        /\ st_pc' = "yielded" =>
              /\ Len(st_yielded') = Len(st_yielded) + 1
              /\ st_yielded'[Len(st_yielded')].block
                    = SubSeq(st_batch', 1, st_block_size')
        /\ st_pc = "yielded" =>
              /\ st_batch' = <<>>
              /\ st_pc' = "fetch"
        /\ st_pc' \in {"fetch", "done"} => Len(st_batch') < st_block_size'
        /\ \A i \in 1..(Len(st_yielded') - 1) :
              \A t \in Range(st_yielded'[i + 1].block) : t > st_yielded'[i].upto
       ]_vars

\* C10 witness: a block was yielded from an accumulator holding more than
\* block_size tokens, the generator resumed, and a later block was yielded
C10_Witness ==
    /\ ~st_sequential
    /\ st_pc = "fetch"
    /\ Len(st_yielded) >= 2
    /\ st_batch = <<>>
    /\ st_yielded[1].upto > st_yielded[1].block[st_block_size]


\* this step of the random-packing iterator adds a non-empty chunk to a
\* non-empty accumulator
ChunkJoinsBatch ==
    /\ ~st_sequential
    /\ st_pc = "fetch"
    /\ st_batch # <<>>
    /\ Len(st_entered') > Len(st_entered)

\* C23: in random-packing iteration, whenever a non-empty chunk is added to a
\* non-empty accumulator, an end-of-sequence id is placed between the tokens
\* already accumulated and the new chunk, so a yielded block holding tokens of
\* two documents has the end-of-sequence id at their boundary.
C23_EosBetweenDocuments ==
    [][ChunkJoinsBatch =>
          LET chunk == SubSeq(st_entered', Len(st_entered) + 1, Len(st_entered'))
              joined == st_batch \o <<eos_token_id>> \o chunk
          IN  IF st_pc' = "yielded"
              THEN st_yielded'[Len(st_yielded')].block = PySlice(joined, 0, st_block_size)
              ELSE st_batch' = joined]_vars

-----------------------------------------------------------------------------
(* get_dtype (TokenDataset.py).  Python integers are unbounded and the      *)
(* thresholds reach 2^32 - 1, so a number is written as four 16-bit limbs,  *)
(* most significant first: <<a, b, c, d>> is a*2^48 + b*2^32 + c*2^16 + d.  *)

\* the limbs of a small integer, 0 <= n < 2^31
Limbs(n) == <<0, 0, n \div 65536, n % 65536>>

\* a < b on limbs
Less(a, b) ==
    \E i \in 1..4 : a[i] < b[i] /\ \A j \in 1..(i - 1) : a[j] = b[j]

\* a - 1 on limbs, for a > 0
RECURSIVE PredFrom(_, _)
PredFrom(a, i) ==
    IF a[i] > 0 THEN [a EXCEPT ![i] = a[i] - 1]
    ELSE PredFrom([a EXCEPT ![i] = 65535], i - 1)

Pred(a) == PredFrom(a, 4)

\* a + 1 on limbs, for a < 2^64 - 1
RECURSIVE SuccFrom(_, _)
SuccFrom(a, i) ==
    IF a[i] < 65535 THEN [a EXCEPT ![i] = a[i] + 1]
    ELSE SuccFrom([a EXCEPT ![i] = 0], i - 1)

Succ(a) == SuccFrom(a, 4)

\* 2**8 - 1, 2**16 - 1, 2**32 - 1 and 2**64 - 1
Pow8m1 == <<0, 0, 0, 255>>
Pow16m1 == <<0, 0, 0, 65535>>
Pow32m1 == <<0, 0, 65535, 65535>>
Pow64m1 == <<65535, 65535, 65535, 65535>>

\* get_dtype with each threshold one higher: 2**8, 2**16, 2**32
get_dtype_pow2(vocab_size) ==
    IF Less(vocab_size, Succ(Pow8m1)) THEN 8
    ELSE IF Less(vocab_size, Succ(Pow16m1)) THEN 16
    ELSE IF Less(vocab_size, Succ(Pow32m1)) THEN 32
    ELSE 64

\* get_dtype: the width in bits of the numpy unsigned type it returns
get_dtype(vocab_size) ==
    IF Less(vocab_size, Pow8m1) THEN 8
    ELSE IF Less(vocab_size, Pow16m1) THEN 16
    ELSE IF Less(vocab_size, Pow32m1) THEN 32
    ELSE 64

\* the highest value of the unsigned type of that width, the placeholder
DtypeMax(bits) ==
    IF bits = 8 THEN Pow8m1
    ELSE IF bits = 16 THEN Pow16m1
    ELSE IF bits = 32 THEN Pow32m1
    ELSE Pow64m1

\* vocabulary sizes around every threshold, the sizes 1..MaxSmallVocab, and
\* the sizes of common tokenizers
VocabSizes ==
    {Limbs(n) : n \in 1..MaxSmallVocab}
    \cup {Limbs(200), Limbs(254), Limbs(255), Limbs(256), Limbs(257)}
    \cup {Limbs(50257), Limbs(65534), Limbs(65535), Limbs(65536), Limbs(70000)}
    \cup {Pred(Pow32m1), Pow32m1, Succ(Pow32m1), <<0, 1, 0, 0>>, <<1, 0, 0, 0>>,
          Pow64m1}

\* token ids below a vocabulary size: the largest, and the smaller samples
TokenIdsBelow(v) == {Pred(v)} \cup {t \in VocabSizes \cup {Limbs(0)} : Less(t, v)}

\* get_dtype(vocab_size) is called, for a vocabulary holding token id t
GetDtype ==
    /\ \E v \in VocabSizes : \E t \in TokenIdsBelow(v) :
          gd_call' = [called |-> TRUE, vocab_size |-> v, token |-> t,
                      bits |-> get_dtype(v)]
    /\ UNCHANGED <<tdVars, stVars, ag_self, ag_call, ag_env>>

InitDtype ==
    /\ datasets = <<>>
    /\ td_result = NoResult
    /\ StreamIdle
    /\ AigenIdle

NextDtype == GetDtype

SpecDtype == InitDtype /\ [][NextDtype]_vars

-----------------------------------------------------------------------------
(* aigen.generate (aigen.py).  An Optional[int] argument is <<>> for None   *)
(* and <<n>> for the integer n.  A text is a sequence of characters.        *)

\* Python's truth value of an Optional[int]: None and 0 are false
Truthy(opt) == opt # <<>> /\ opt[1] # 0

Chars == {" ", "a"}

\* the texts batch_decode can return for the one sequence generated
Texts == UNION {[1..n -> Chars] : n \in 0..MaxText}

\* re.sub(r"^\s+", "", text)
RECURSIVE StripLeading(_)
StripLeading(text) ==
    IF text # <<>> /\ Head(text) = " " THEN StripLeading(Tail(text)) ELSE text

\* the prompts: the empty string, or a string of ntokens tokens
Prompts ==
    {[empty |-> TRUE, ntokens |-> 0]}
    \cup {[empty |-> FALSE, ntokens |-> n] : n \in 1..(MaxContext + 1)}

OptInts(lo, hi) == {<<>>} \cup {<<n>> : n \in lo..hi}

\* the seeds tried: None, 0 and a non-zero seed
Seeds == OptInts(0, 1)

\* the check of lines 273-277 with <= for <
PromptFitsInclusive(prompt, max_len) ==
    prompt.empty \/ prompt.ntokens <= max_len

\* lines 273-277: an empty prompt is not checked
PromptFits(prompt, max_len) ==
    prompt.empty \/ prompt.ntokens < max_len

\* the filter with a least length of 1 when min_length is 0 or None
SurvivesMinOne(raw, min_length) ==
    LET text == StripLeading(raw)
    IN  IF Truthy(min_length) THEN Len(text) > min_length[1] ELSE Len(text) > 1

\* the filter with >= for >
SurvivesInclusive(raw, min_length) ==
    LET text == StripLeading(raw)
    IN  IF Truthy(min_length) THEN Len(text) >= min_length[1] ELSE Len(text) > 0

\* lines 329-337: the decoded text is stripped and passes the length filter
Survives(raw, min_length) ==
    LET text == StripLeading(raw)
    IN  IF Truthy(min_length) THEN Len(text) > min_length[1] ELSE Len(text) > 0

\* a loop that gives up after MaxAttempts filtered attempts
RetryCapped(gen_calls) == IF gen_calls >= MaxAttempts THEN "raised" ELSE "loop"

\* lines 337-338: `continue`, whatever the number of attempts so far
Retry(gen_calls) == "loop"

\* lines 287 and 341: `if seed:`
SeedGiven(seed) == Truthy(seed)

\* a forward pass that starts from no state whatever self.memory holds
NextMemoryFresh(memory) == <<1>>

\* self.memory after self.model(inputs) of lines 293-300: <<n>> is the state
\* n chained forward passes produce, the pass being given state=self.memory
\* when that is not None
NextMemory(memory) == IF memory = <<>> THEN <<1>> ELSE <<memory[1] + 1>>

\* generate up to the retry loop (lines 270-307): the prompt is tokenized and
\* checked, the seed set, self.mode set, and in "rnn" mode the model run once
GenerateCall ==
    /\ ag_self.exists
    /\ ag_call.pc # "loop"
    /\ ag_env.calls < MaxCalls
    /\ \E prompt \in Prompts, min_length \in OptInts(0 - 1, MaxText),
          seed \in Seeds, mode \in {"transformer", "rnn"} :
          LET args == [prompt |-> prompt, min_length |-> min_length,
                       seed |-> seed, mode |-> mode]
              call == [NoCall EXCEPT !.op = "generate", !.args = args,
                                     !.memory_in = ag_self.memory]
          IN  IF ~PromptFits(prompt, ag_self.max_len)
              THEN /\ ag_call' = [call EXCEPT
                          !.pc = "raised",
                          !.err = "The prompt is too large for the model.",
                          !.err_names = <<prompt.ntokens>>,
                          !.log = <<"tokenizer">>]
                   /\ ag_self' = ag_self
                   /\ ag_env' = [ag_env EXCEPT !.calls = @ + 1]
              ELSE /\ ag_call' = [call EXCEPT
                          !.pc = "loop",
                          !.log = <<"tokenizer">>
                                  \o (IF SeedGiven(seed) THEN <<"set_seed">> ELSE <<>>)
                                  \o (IF mode = "rnn" THEN <<"forward">> ELSE <<>>)]
                   /\ ag_self' = [ag_self EXCEPT
                          !.mode = mode,
                          !.memory = IF mode = "rnn" THEN NextMemory(@) ELSE @]
                   /\ ag_env' = [ag_env EXCEPT
                          !.calls = @ + 1,
                          !.seed = IF SeedGiven(seed) THEN seed ELSE @,
                          !.grad_enabled = IF mode = "rnn" THEN FALSE ELSE @]
    /\ UNCHANGED <<tdVars, stVars, gd_call>>

\* one turn of the loop of lines 309-344: self.model.generate, handed
\* state=self.memory, returns one sequence, which decodes to raw; a text the
\* filter drops leads to another turn, a text that survives is returned after
\* the seed is reset
GenerateAttempt ==
    /\ ag_call.op = "generate"
    /\ ag_call.pc = "loop"
    /\ \E raw \in Texts :
          LET calls == Min2(ag_call.gen_calls + 1, MaxAttempts + 1)
          IN  IF Survives(raw, ag_call.args.min_length)
              THEN /\ ag_call' = [ag_call EXCEPT
                          !.pc = "returned",
                          !.raw = raw,
                          !.gen_calls = calls,
                          !.states = @ \cup {ag_self.memory},
                          !.value = StripLeading(raw),
                          !.log = @ \o (IF SeedGiven(ag_call.args.seed)
                                        THEN <<"reset_seed">> ELSE <<>>)]
                   /\ ag_env' = [ag_env EXCEPT
                          !.seed = IF SeedGiven(ag_call.args.seed) THEN <<>> ELSE @]
              ELSE /\ ag_call' = [ag_call EXCEPT
                          !.pc = Retry(ag_call.gen_calls + 1),
                          !.raw = raw,
                          !.gen_calls = calls,
                          !.states = @ \cup {ag_self.memory}]
                   /\ ag_env' = ag_env
    /\ UNCHANGED <<tdVars, stVars, ag_self, gd_call>>

\* an aigen object whose model has a maximum context length of MaxContext
InitGen ==
    /\ datasets = <<>>
    /\ td_result = NoResult
    /\ StreamIdle
    /\ ag_self = [NoAigen EXCEPT !.exists = TRUE, !.source = "hub",
                                 !.max_len = MaxContext]
    /\ ag_call = NoCall
    /\ ag_env = NoEnv
    /\ gd_call = NoDtype

NextGen == GenerateCall \/ GenerateAttempt

SpecGen == InitGen /\ [][NextGen]_vars

-----------------------------------------------------------------------------
(* aigen.__init__ (aigen.py).  The adapters requested are named 1, 2, ...;  *)
(* the adapter the merge adds is named by the constant below.  The log of   *)
(* the call lists the loading calls made, in order.                         *)

\* adapter_name="combined" of line 202
combined == 0

\* the two assertions on the folder without the one on config.json
FolderCheckWeightsOnly(files) ==
    IF ~(files.bin \/ files.safetensors) THEN "no_weights" ELSE "ok"

\* lines 107-114: the two assertions on model_folder, in their order
FolderCheck(files) ==
    IF ~(files.bin \/ files.safetensors) THEN "no_weights"
    ELSE IF ~files.config_json THEN "no_config"
    ELSE "ok"

\* the message of the assertion that failed
FolderError(check) ==
    IF check = "no_weights"
    THEN "There is no pytorch_model.bin or model.safetensors file found in model_folder."
    ELSE "There is no config.json in model_folder."

\* lines 96-165: how the model is obtained, as [ok, err, source, log]
LoadModel(a) ==
    IF a.config
    THEN [ok |-> TRUE, err |-> "none", source |-> "config",
          log |-> <<"AutoModelForCausalLM.from_config">>]
    ELSE IF a.model_folder /\ FolderCheck(a.files) # "ok"
    THEN [ok |-> FALSE, err |-> FolderError(FolderCheck(a.files)),
          source |-> "none", log |-> <<>>]
    ELSE [ok |-> TRUE, err |-> "none",
          source |-> IF a.model_folder THEN "folder" ELSE "hub",
          log |-> IF a.petals
                  THEN <<"AutoDistributedModelForCausalLM.from_pretrained">>
                  ELSE <<"AutoModelForCausalLM.from_pretrained">>]

\* lines 182-194: every adapter requested is attached, the first by
\* PeftModel.from_pretrained and the others by load_adapter
AttachLog(adapters) ==
    [i \in 1..Len(adapters) |->
        IF i = 1 THEN "PeftModel.from_pretrained" ELSE "load_adapter"]

\* lines 196-214, for more than one adapter: add_weighted_adapter, whose
\* failure is caught and printed; then set_adapter("combined"), which the
\* adapter library rejects (rejects_unknown) or not when no such adapter
\* exists; then every adapter requested is deleted.
\* The result is [ok, err, adapters, active, log].
MergeAdapters(adapters, merge_fails, rejects_unknown) ==
    LET merged == IF merge_fails THEN adapters ELSE Append(adapters, combined)
        log1 == <<"add_weighted_adapter">>
                \o (IF merge_fails THEN <<"print(traceback)">> ELSE <<>>)
                \o <<"set_adapter">>
    IN  IF merge_fails /\ rejects_unknown
        THEN [ok |-> FALSE, err |-> "ValueError: Adapter combined not found.",
              adapters |-> merged, active |-> <<adapters[1]>>,
              log |-> log1]
        ELSE [ok |-> TRUE, err |-> "none",
              adapters |-> SelectSeq(merged, LAMBDA x : x = combined),
              active |-> <<combined>>,
              log |-> log1 \o [i \in 1..Len(adapters) |-> "delete_adapter"]]

\* lines 181-216: adapters are loaded unless none is requested or petals is
\* set, and merged when there is more than one
LoadAdapters(a) ==
    IF a.adapters = <<>> \/ a.petals
    THEN [ok |-> TRUE, err |-> "none", adapters |-> <<>>, active |-> <<>>,
          log |-> <<>>]
    ELSE IF Len(a.adapters) > 1
    THEN LET m == MergeAdapters(a.adapters, a.merge_fails, a.rejects_unknown)
         IN  [m EXCEPT !.log = AttachLog(a.adapters) \o @]
    ELSE [ok |-> TRUE, err |-> "none", adapters |-> a.adapters,
          active |-> <<a.adapters[1]>>, log |-> AttachLog(a.adapters)]

\* the arguments of __init__ and the outcomes of what it calls
InitArgs ==
    [config : BOOLEAN, model_folder : BOOLEAN,
     files : [bin : BOOLEAN, safetensors : BOOLEAN, config_json : BOOLEAN],
     tokenizer : BOOLEAN, petals : BOOLEAN,
     adapters : {[i \in 1..n |-> i] : n \in 0..MaxAdapters},
     merge_fails : BOOLEAN, rejects_unknown : BOOLEAN]

\* aigen(...): the whole of __init__
Construct ==
    /\ ag_call.op = "none"
    /\ \E a \in InitArgs :
          LET m == LoadModel(a)
              tok == IF a.tokenizer THEN <<>>
                     ELSE <<"AutoTokenizer.from_pretrained">>
              ad == LoadAdapters(a)
              call == [NoCall EXCEPT !.op = "init", !.args = a]
              self == [NoAigen EXCEPT !.petals = a.petals]
          IN  \* without merge_fails and rejects_unknown nothing is to choose
              /\ (Len(a.adapters) < 2 \/ a.petals \/ ~m.ok)
                    => (~a.merge_fails /\ ~a.rejects_unknown)
              /\ ~a.merge_fails => ~a.rejects_unknown
              /\ ~a.model_folder => a.files = [bin |-> FALSE, safetensors |-> FALSE,
                                               config_json |-> FALSE]
              /\ IF ~m.ok
                 THEN /\ ag_call' = [call EXCEPT !.pc = "raised", !.err = m.err,
                                                 !.err_names = <<"model_folder">>,
                                                 !.log = m.log]
                      /\ ag_self' = self
                 ELSE IF ~ad.ok
                 THEN /\ ag_call' = [call EXCEPT !.pc = "raised", !.err = ad.err,
                                                 !.log = m.log \o tok \o ad.log]
                      /\ ag_self' = [self EXCEPT !.source = m.source,
                                                 !.adapters = ad.adapters,
                                                 !.active_adapter = ad.active]
                 ELSE /\ ag_call' = [call EXCEPT !.pc = "returned",
                                                 !.log = m.log \o tok \o ad.log]
                      /\ ag_self' = [self EXCEPT !.exists = TRUE,
                                                 !.source = m.source,
                                                 !.max_len = 1,
                                                 !.adapters = ad.adapters,
                                                 !.active_adapter = ad.active]
    /\ UNCHANGED <<tdVars, stVars, ag_env, gd_call>>

InitInit ==
    /\ datasets = <<>>
    /\ td_result = NoResult
    /\ StreamIdle
    /\ AigenIdle

NextInit == Construct

SpecInit == InitInit /\ [][NextInit]_vars

-----------------------------------------------------------------------------
(* aigen.train and aigen.save (aigen.py).  The log of a train call lists    *)
(* what it did, in order.                                                   *)

\* `def _get_params(model)` of line 346 declares one parameter ...
GetParamsDeclared == 1
\* ... and `self._get_params(self.model)` of line 592 passes two: the bound
\* method hands over self and the call adds self.model
GetParamsPassed == 2

\* a Python call binds only when as many positional arguments are passed as
\* the function declares (no defaults, no *args here)
CallBinds(declared, passed) == declared = passed

\* the saves the AIGModelSaver callback makes during a fit of num_steps steps:
\* one every save_every steps, none with the distributed backend
FitSaves(num_steps, save_every, petals) ==
    IF petals THEN <<>>
    ELSE [i \in 1..(num_steps \div save_every) |-> "AIGModelSaver.save"]

\* the model's named parameters: a name is its dotted path, a parameter
\* with requires_grad = FALSE is frozen
ModelParameters ==
    << [name |-> <<"h", "attn", "weight">>, requires_grad |-> TRUE],
       [name |-> <<"h", "attn", "bias">>, requires_grad |-> TRUE],
       [name |-> <<"h", "LayerNorm", "weight">>, requires_grad |-> TRUE],
       [name |-> <<"wte", "weight">>, requires_grad |-> FALSE] >>

\* any(nd in n for nd in ["bias", "LayerNorm.weight"])
NoDecay(name) ==
    \/ \E i \in 1..Len(name) : name[i] = "bias"
    \/ \E i \in 1..(Len(name) - 1) : name[i] = "LayerNorm" /\ name[i + 1] = "weight"

\* the names the body of _get_params can see: its parameter and its locals;
\* hparams is a local of train and no global of the module
GetParamsScope == {"model", "no_decay", "grouped_parameters"}

\* the body of _get_params (lines 347-366) over named parameters, as
\* [ok, err, groups]: a group per parameter that requires gradients, and a
\* NameError at the first one whose decay is read from hparams
RECURSIVE GetParamsBody(_, _)
GetParamsBody(parameters, scope) ==
    IF parameters = <<>> THEN [ok |-> TRUE, err |-> "none", groups |-> <<>>]
    ELSE LET p == Head(parameters)
             rest == GetParamsBody(Tail(parameters), scope)
         IN  IF ~p.requires_grad THEN rest
             ELSE IF NoDecay(p.name)
             THEN [rest EXCEPT !.groups = <<[params |-> p.name, weight_decay |-> 0]>> \o @]
             ELSE IF "hparams" \notin DOMAIN scope
             THEN [ok |-> FALSE, err |-> "NameError: name 'hparams' is not defined",
                   groups |-> <<>>]
             ELSE [rest EXCEPT !.groups =
                      <<[params |-> p.name, weight_decay |-> scope.hparams]>> \o @]

\* lines 624-627: while the interval exceeds the length n of the first static
\* train loader it is set to floor(n / 2)
RECURSIVE AdjustInterval(_, _)
AdjustInterval(interval, n) ==
    IF interval > n THEN AdjustInterval(n \div 2, n) ELSE interval

\* lines 590-641, from the parameter grouping on, as [ok, err, log, groups,
\* interval]: groups are the parameter groups handed to get_optimizer and
\* interval the val_check_interval handed to the Trainer, <<>> when the call
\* did not get that far
TrainFromParams(a) ==
    IF ~CallBinds(GetParamsDeclared, GetParamsPassed)
    THEN [ok |-> FALSE,
          err |-> "TypeError: _get_params() takes 1 positional argument but 2 were given",
          log |-> <<"_get_params">>, groups |-> <<>>, interval |-> <<>>]
    ELSE LET g == GetParamsBody(ModelParameters,
                                [n \in GetParamsScope |-> 0])
             configured == a.val_interval * a.gradient_accumulation_steps
         IN  IF ~g.ok
             THEN [ok |-> FALSE, err |-> g.err, log |-> <<"_get_params">>,
                   groups |-> <<>>, interval |-> <<>>]
             ELSE [ok |-> TRUE, err |-> "none",
                   log |-> <<"_get_params", "get_optimizer", "get_schedule">>
                       \o (IF a.strategy THEN <<"get_strategy">> ELSE <<>>)
                       \o <<"AIGTrainer", "model.train", "trainer.fit">>
                       \o FitSaves(a.num_steps, a.save_every, a.petals)
                       \o (IF ~a.petals THEN <<"save">> ELSE <<>>)
                       \o (IF SeedGiven(a.seed) THEN <<"reset_seed">> ELSE <<>>),
                   groups |-> <<g.groups>>,
                   interval |-> IF a.static_data > 0
                                THEN <<AdjustInterval(configured, a.first_len)>>
                                ELSE <<configured>>]

\* lines 437-590: what train does before the parameter grouping
TrainPrefix(a) ==
    <<"model.training">>
    \o (IF SeedGiven(a.seed) THEN <<"set_seed">> ELSE <<>>)
    \o <<"os.makedirs", "prepare_datasets">>

\* the arguments of train that the claims are about
TrainArgs ==
    [seed : Seeds, petals : BOOLEAN, strategy : BOOLEAN,
     static_data : 0..MaxStaticData, num_steps : 1..MaxSteps,
     save_every : 1..MaxSteps, weight_decay : 0..1,
     val_interval : 1..MaxInterval,
     gradient_accumulation_steps : 1..MaxAccum,
     first_len : 0..MaxExamples]

HasEvent(log, e) == \E i \in 1..Len(log) : log[i] = e

\* aigen.train(...): the whole call
TrainCall ==
    /\ ag_self.exists
    /\ ag_call.op = "none"
    /\ \E a \in TrainArgs :
          LET r == TrainFromParams(a)
              log == TrainPrefix(a) \o r.log
          IN  /\ ag_call' = [NoCall EXCEPT
                     !.op = "train", !.args = a,
                     !.pc = IF r.ok THEN "returned" ELSE "raised",
                     !.err = r.err, !.log = log,
                     !.value = [groups |-> r.groups, interval |-> r.interval]]
              /\ ag_self' = [ag_self EXCEPT !.training = TRUE]
              /\ ag_env' = [ag_env EXCEPT
                     !.calls = @ + 1,
                     !.seed = IF SeedGiven(a.seed) /\ ~HasEvent(log, "reset_seed")
                              THEN a.seed ELSE @,
                     !.artifacts = IF HasEvent(log, "save")
                                      \/ HasEvent(log, "AIGModelSaver.save")
                                   THEN 1 ELSE @]
    /\ UNCHANGED <<tdVars, stVars, gd_call>>

\* aigen.save(output_dir): model.save_pretrained writes the model there
SaveCall ==
    /\ ag_self.exists
    /\ ag_call.op = "train"
    /\ ag_call' = [NoCall EXCEPT !.op = "save", !.args = ag_call.args,
                                 !.pc = "returned",
                                 !.log = ag_call.log \o <<"save_pretrained">>]
    /\ ag_env' = [ag_env EXCEPT !.calls = @ + 1, !.artifacts = 1]
    /\ UNCHANGED <<tdVars, stVars, ag_self, gd_call>>

\* an aigen object, loaded through the distributed backend or not
InitTrain ==
    /\ datasets = <<>>
    /\ td_result = NoResult
    /\ StreamIdle
    /\ \E petals \in BOOLEAN :
          ag_self = [NoAigen EXCEPT !.exists = TRUE, !.source = "hub",
                                    !.max_len = 1, !.petals = petals]
    /\ ag_call = NoCall
    /\ ag_env = NoEnv
    /\ gd_call = NoDtype

NextTrain == TrainCall \/ SaveCall

SpecTrain == InitTrain /\ [][NextTrain]_vars

-----------------------------------------------------------------------------
(* TokenDataset.save and the from_cache branch of __init__                  *)
(* (TokenDataset.py).  A destination is written as its name without the     *)
(* last suffix and that suffix, so that endswith(".gz") is a test on ext.   *)
(* A file is [name, gz, payload]: gz says whether the bytes are a gzip      *)
(* stream, payload is the array np.save wrote.                              *)

\* cache_destination's default
DefaultDestination == [base |-> "dataset_cache.tar", ext |-> ".gz"]

\* the name save falls back on with compress=False
UncompressedDefault == [base |-> "dataset_cache", ext |-> ".npy"]

Destinations ==
    {DefaultDestination, UncompressedDefault,
     [base |-> "cache", ext |-> ".gz"], [base |-> "cache", ext |-> ".npy"],
     [base |-> "cache", ext |-> ""]}

\* file_path.endswith(".gz")
EndsWithGz(name) == name.ext = ".gz"

\* lines 166-186: the file save writes, as [ok, err, file]
Save(d, cache_destination, compress) ==
    IF Len(d.tokens) = 0
    THEN [ok |-> FALSE, err |-> "No data loaded to save.", file |-> <<>>]
    ELSE LET name == IF ~compress /\ cache_destination = DefaultDestination
                     THEN UncompressedDefault ELSE cache_destination
         IN  [ok |-> TRUE, err |-> "none",
              file |-> <<[name |-> name, gz |-> compress, payload |-> d.tokens]>>]

\* lines 88-92: the array read from a cache file, as [ok, err, toks];
\* gzip.open fails on bytes that are no gzip stream, and np.load fails on a
\* gzip stream read as it is
ReadCache(file) ==
    IF EndsWithGz(file.name) /\ ~file.gz
    THEN [ok |-> FALSE, err |-> "gzip.BadGzipFile", toks |-> <<>>]
    ELSE IF ~EndsWithGz(file.name) /\ file.gz
    THEN [ok |-> FALSE, err |-> "np.load: not a numpy array file", toks |-> <<>>]
    ELSE [ok |-> TRUE, err |-> "none", toks |-> file.payload]

\* a TokenDataset is built from n encoded texts
CacheConstruct ==
    /\ datasets = <<>>
    /\ \E mode \in {"texts", "line_by_line", "bulk"}, n \in 1..MaxLen,
          block_size \in 1..MaxBlock :
          LET r == TokenDatasetInit(mode, SourceTokens(1, n), block_size, TRUE)
          IN  /\ r.ok
              /\ datasets' = r.obj
    /\ UNCHANGED <<td_result, stVars, agVars>>

\* dataset.save(cache_destination, compress)
CacheSave ==
    /\ datasets # <<>>
    /\ \E cache_destination \in Destinations, compress \in BOOLEAN :
          LET r == Save(datasets[1], cache_destination, compress)
          IN  /\ td_result' = [NoResult EXCEPT
                     !.op = "save", !.kind = "token",
                     !.status = IF r.ok THEN "ok" ELSE "error", !.err = r.err]
              /\ ag_env' = [ag_env EXCEPT
                     !.cache_file = IF r.ok THEN r.file ELSE @]
    /\ UNCHANGED <<datasets, stVars, ag_self, ag_call, gd_call>>

\* TokenDataset(file_path=<the file save wrote>, from_cache=True, block_size)
CacheLoad ==
    /\ td_result.op = "save"
    /\ ag_env.cache_file # <<>>
    /\ \E block_size \in 1..MaxBlock :
          LET f == ReadCache(ag_env.cache_file[1])
              r == IF f.ok THEN TokenDatasetInit("cache", f.toks, block_size, TRUE)
                   ELSE [ok |-> FALSE, err |-> f.err, obj |-> <<>>]
          IN  td_result' = [NoResult EXCEPT
                  !.op = "load", !.kind = "token", !.mode = "cache",
                  !.block_size = block_size,
                  !.status = IF r.ok THEN "ok" ELSE "error",
                  !.err = r.err, !.obj = r.obj]
    /\ UNCHANGED <<datasets, stVars, agVars>>

InitCache ==
    /\ datasets = <<>>
    /\ td_result = NoResult
    /\ StreamIdle
    /\ AigenIdle

NextCache == CacheConstruct \/ CacheSave \/ CacheLoad

SpecCache == InitCache /\ [][NextCache]_vars

-----------------------------------------------------------------------------
(* __str__ of TokenDataset and StaticDataset (TokenDataset.py, datasets.py) *)

\* the path given as file_path when a dataset is built from a file
SourcePath == "data.txt"

\* `self.file_path if self.file_path is not None else "loaded dataset"`, as
\* [ok, err, value]: reading an attribute that __init__ never assigned is an
\* AttributeError
Str(d) ==
    IF d.file_path = "unset"
    THEN [ok |-> FALSE, err |-> "AttributeError: object has no attribute 'file_path'",
          value |-> <<>>]
    ELSE [ok |-> TRUE, err |-> "none",
          value |-> <<IF d.file_path = "file" THEN SourcePath ELSE d.file_path>>]

\* a TokenDataset or a StaticDataset is built, in any mode
StrConstruct ==
    /\ td_result.op = "none"
    /\ \E kind \in {"token", "static"}, mode \in Modes, n \in 0..MaxLen,
          block_size \in 1..MaxBlock, present \in BOOLEAN :
          LET r == IF kind = "token"
                   THEN TokenDatasetInit(mode, SourceTokens(1, n), block_size, present)
                   ELSE StaticDatasetInit(mode, [i \in 1..n |-> SourceTokens(i, block_size)],
                                          block_size, present, TRUE)
          IN  /\ datasets' = r.obj
              /\ td_result' = [NoResult EXCEPT
                     !.op = "construct", !.kind = kind, !.mode = mode,
                     !.ntokens = n, !.block_size = block_size,
                     !.status = IF r.ok THEN "ok" ELSE "error",
                     !.err = r.err, !.obj = r.obj]
    /\ UNCHANGED <<stVars, agVars>>

\* str(dataset) on the dataset just built
StrCall ==
    /\ td_result.op = "construct"
    /\ datasets # <<>>
    /\ LET r == Str(datasets[1])
       IN  td_result' = [td_result EXCEPT
               !.op = "str", !.status = IF r.ok THEN "ok" ELSE "error",
               !.err = r.err, !.value = r.value]
    /\ UNCHANGED <<datasets, stVars, agVars>>

InitStr ==
    /\ datasets = <<>>
    /\ td_result = NoResult
    /\ StreamIdle
    /\ AigenIdle

NextStr == StrConstruct \/ StrCall

SpecStr == InitStr /\ [][NextStr]_vars

-----------------------------------------------------------------------------
(* An aigen object over its life: train, save and generate calls one after  *)
(* the other on the same object.                                            *)

InitLife ==
    /\ datasets = <<>>
    /\ td_result = NoResult
    /\ StreamIdle
    /\ ag_self = [NoAigen EXCEPT !.exists = TRUE, !.source = "hub",
                                 !.max_len = MaxContext]
    /\ ag_call = NoCall
    /\ ag_env = NoEnv
    /\ gd_call = NoDtype

NextLife == TrainCall \/ SaveCall \/ GenerateCall \/ GenerateAttempt

SpecLife == InitLife /\ [][NextLife]_vars

-----------------------------------------------------------------------------
(* aigen.prepare_datasets (aigen.py) with StaticDataModule and              *)
(* StreamingDataModule (datasets.py).  A loader is [kind, len]: len is <<n>>*)
(* for a loader of n batches and <<>> for a loader over an iterable dataset *)
(* without __len__.                                                         *)

CeilDiv(a, b) == (a + b - 1) \div b

\* StaticDataModule.setup: random_split by [1 - val_split, val_split]; with
\* val_split = 0.5 each side gets the half rounded down and the train side
\* the remainder
ValExamples(examples, half) == IF half THEN examples \div 2 ELSE 0

\* StaticDataModule.train_dataloader: len(DataLoader) is the batch count
StaticTrainLoader(examples, hparams) ==
    [kind |-> "static",
     len |-> <<CeilDiv(examples - ValExamples(examples, hparams.val_half),
                       hparams.batch_size)>>]

\* StaticDataModule.val_dataloader
StaticValLoader(examples, hparams) ==
    [kind |-> "static",
     len |-> <<CeilDiv(ValExamples(examples, hparams.val_half), hparams.batch_size)>>]

\* StreamingDataModule.train_dataloader: StreamingDataset has no __len__
StreamingTrainLoader == [kind |-> "streaming", len |-> <<>>]

\* sum(len(ds) for ds in loaders), as [ok, sum]: len() of a loader over an
\* iterable dataset without __len__ is a TypeError
RECURSIVE SumLen(_)
SumLen(loaders) ==
    IF loaders = <<>> THEN [ok |-> TRUE, sum |-> 0]
    ELSE IF Head(loaders).len = <<>> THEN [ok |-> FALSE, sum |-> 0]
    ELSE LET rest == SumLen(Tail(loaders))
         IN  [ok |-> rest.ok, sum |-> Head(loaders).len[1] + rest.sum]

\* the loaders combined only when there are more than two
CombineTrainOverTwo(loaders) ==
    [combined |-> Len(loaders) > 2, loaders |-> loaders]

\* lines 383-385: CombinedLoader(mode="min_size") over more than one loader,
\* the list itself otherwise
CombineTrain(loaders) ==
    [combined |-> Len(loaders) > 1, loaders |-> loaders]

\* lines 387-391: None (<<>>) without validation loaders
CombineVal(loaders) ==
    IF Len(loaders) = 0 THEN <<>>
    ELSE <<[combined |-> Len(loaders) > 1, loaders |-> loaders]>>

\* the fields of self before prepare_datasets has set any
NoPrepared ==
    [total_train |-> <<>>, total_val |-> <<>>, static_len |-> <<>>,
     combined_train |-> <<>>, combined_val |-> <<>>, total_batches |-> <<>>]

\* lines 368-394, as [ok, err, fields]; static_data lists the example count
\* of each static dataset, streaming is the number of streaming sources
PrepareDatasets(hparams, static_data, streaming) ==
    LET static_train == [i \in 1..Len(static_data) |->
                            StaticTrainLoader(static_data[i], hparams)]
        total_val == [i \in 1..Len(static_data) |->
                            StaticValLoader(static_data[i], hparams)]
        static_len == SumLen(static_train).sum
        total_train == static_train \o [i \in 1..streaming |-> StreamingTrainLoader]
        fields == [NoPrepared EXCEPT
                      !.total_train = total_train,
                      !.total_val = total_val,
                      !.static_len = <<static_len>>,
                      !.combined_train = <<CombineTrain(total_train)>>,
                      !.combined_val = CombineVal(total_val)]
        batches == SumLen(total_train)
    IN  IF static_len > 0 /\ ~batches.ok
        THEN [ok |-> FALSE,
              err |-> "TypeError: object of type 'StreamingDataset' has no len()",
              fields |-> fields]
        ELSE [ok |-> TRUE, err |-> "none",
              fields |-> IF static_len > 0
                         THEN [fields EXCEPT !.total_batches = <<batches.sum>>]
                         ELSE fields]

\* the static_data lists: up to MaxStaticData datasets of 1..MaxExamples
StaticDataLists == UNION {[1..n -> 1..MaxExamples] : n \in 0..MaxStaticData}

\* aigen.prepare_datasets(hparams, static_data, streaming_data)
PrepareCall ==
    /\ ag_self.exists
    /\ ag_call.op = "none"
    /\ \E static_data \in StaticDataLists, streaming \in 0..MaxStreaming,
          batch_size \in 1..MaxBatch, val_half \in BOOLEAN :
          LET hparams == [batch_size |-> batch_size, val_half |-> val_half]
              r == PrepareDatasets(hparams, static_data, streaming)
          IN  ag_call' = [NoCall EXCEPT
                  !.op = "prepare_datasets",
                  !.args = [hparams |-> hparams, static_data |-> static_data,
                            streaming |-> streaming],
                  !.pc = IF r.ok THEN "returned" ELSE "raised",
                  !.err = r.err, !.value = r.fields]
    /\ UNCHANGED <<tdVars, stVars, ag_self, ag_env, gd_call>>

InitPrepare ==
    /\ datasets = <<>>
    /\ td_result = NoResult
    /\ StreamIdle
    /\ ag_self = [NoAigen EXCEPT !.exists = TRUE, !.source = "hub", !.max_len = 1]
    /\ ag_call = NoCall
    /\ ag_env = NoEnv
    /\ gd_call = NoDtype

NextPrepare == PrepareCall

SpecPrepare == InitPrepare /\ [][NextPrepare]_vars

-----------------------------------------------------------------------------
(* Claims checked under SpecDtype *)

\* C20: get_dtype(v) is the 8-bit width for v < 255, the 16-bit width for
\* 255 <= v < 65535, the 32-bit width for 65535 <= v < 2^32 - 1 and the 64-bit
\* width otherwise; get_dtype(200) is 8-bit, get_dtype(256) is 16-bit and
\* get_dtype(70000) is 32-bit; and the highest value of the chosen width is
\* strictly greater than every token id below v.
C20_DtypeThresholds ==
    gd_call.called =>
        LET v == gd_call.vocab_size
            below255 == v[1] = 0 /\ v[2] = 0 /\ v[3] = 0 /\ v[4] < 255
            below65535 == v[1] = 0 /\ v[2] = 0 /\ v[3] = 0 /\ v[4] < 65535
            below2p32m1 == v[1] = 0 /\ v[2] = 0
                           /\ ~(v[3] = 65535 /\ v[4] = 65535)
        IN  /\ gd_call.bits = (IF below255 THEN 8
                               ELSE IF below65535 THEN 16
                               ELSE IF below2p32m1 THEN 32
                               ELSE 64)
            /\ v = Limbs(200) => gd_call.bits = 8
            /\ v = Limbs(256) => gd_call.bits = 16
            /\ v = Limbs(70000) => gd_call.bits = 32
            /\ Less(gd_call.token, v)
            /\ Less(gd_call.token, DtypeMax(gd_call.bits))

\* get_dtype was called at a threshold itself, 255 or 65535 or 2^32 - 1, for a
\* vocabulary whose largest token id is one below it
C20_Witness ==
    /\ gd_call.called
    /\ gd_call.vocab_size \in {Pow8m1, Pow16m1, Pow32m1}
    /\ gd_call.token = Pred(gd_call.vocab_size)
    /\ gd_call.bits \in {16, 32, 64}

-----------------------------------------------------------------------------
(* Claims checked under SpecGen *)

\* this step is a new call of generate
IsGenerateCall == ag_env'.calls = ag_env.calls + 1 /\ ag_call'.op = "generate"

\* the events of a call's log that are named e
Count(log, e) == Cardinality({i \in 1..Len(log) : log[i] = e})

\* C11: generate with a non-empty prompt of at least max-context tokens fails
\* with the too-long-prompt error reporting the token count, before the seed
\* is set, before self.mode or self.memory changes and before any model
\* forward or generation call; a prompt with strictly fewer tokens passes.
C11_TooLongPromptFailsFirst ==
    [][IsGenerateCall =>
          LET a == ag_call'.args
          IN  /\ (~a.prompt.empty /\ a.prompt.ntokens >= ag_self.max_len)
                   => /\ ag_call'.pc = "raised"
                      /\ ag_call'.err = "The prompt is too large for the model."
                      /\ ag_call'.err_names = <<a.prompt.ntokens>>
                      /\ ag_env'.seed = ag_env.seed
                      /\ ag_self'.mode = ag_self.mode
                      /\ ag_self'.memory = ag_self.memory
                      /\ Count(ag_call'.log, "set_seed") = 0
                      /\ Count(ag_call'.log, "forward") = 0
                      /\ ag_call'.gen_calls = 0
              /\ (~a.prompt.empty /\ a.prompt.ntokens < ag_self.max_len)
                   => /\ ag_call'.pc = "loop"
                      /\ ag_call'.err = "none"]_vars

\* a call with a prompt of exactly max-context tokens, a seed, and a mode
\* other than the object's, on an object that holds a memory, has failed
C11_Witness ==
    /\ ag_call.op = "generate"
    /\ ag_call.pc = "raised"
    /\ ag_call.args.prompt.ntokens = ag_self.max_len
    /\ Truthy(ag_call.args.seed)
    /\ ag_call.args.mode # ag_self.mode
    /\ ag_self.memory # <<>>
    /\ ag_env.seed = <<>>

Returned == ag_call.op = "generate" /\ ag_call.pc = "returned"

NoLeadingWhitespace(text) == text = <<>> \/ Head(text) # " "

\* C12 as stated: whenever generate returns, the text returned is the
\* candidate of the attempt that survived, has no leading whitespace, is
\* longer than min_length when min_length is given and longer than 0
\* otherwise, and is never the empty string.
C12_ReturnsNonEmptySurvivor ==
    Returned =>
        /\ ag_call.value = StripLeading(ag_call.raw)
        /\ NoLeadingWhitespace(ag_call.value)
        /\ IF ag_call.args.min_length # <<>>
           THEN Len(ag_call.value) > ag_call.args.min_length[1]
           ELSE Len(ag_call.value) > 0
        /\ ag_call.value # <<>>

\* C12 amended: the same, but the text is known to be non-empty only when
\* min_length is absent or not negative.
C12_ReturnsSurvivor ==
    Returned =>
        /\ ag_call.value = StripLeading(ag_call.raw)
        /\ NoLeadingWhitespace(ag_call.value)
        /\ IF ag_call.args.min_length # <<>>
           THEN Len(ag_call.value) > ag_call.args.min_length[1]
           ELSE Len(ag_call.value) > 0
        /\ (ag_call.args.min_length = <<>> \/ ag_call.args.min_length[1] >= 0)
              => ag_call.value # <<>>

\* generate returned, after a retry, a text that lost leading whitespace and
\* is just longer than the min_length given
C12_Witness ==
    /\ Returned
    /\ ag_call.gen_calls > 1
    /\ ag_call.raw # ag_call.value
    /\ ag_call.args.min_length # <<>>
    /\ Len(ag_call.value) = ag_call.args.min_length[1] + 1

\* this step is the first turn of the loop of a call with min_length = 0
FirstAttemptMinZero ==
    /\ ag_call.op = "generate"
    /\ ag_call.pc = "loop"
    /\ ag_call.gen_calls = 0
    /\ ag_call.args.min_length = <<0>>
    /\ ag_call'.gen_calls = 1

\* C13 as stated: with min_length = 0, any non-empty decoded output makes
\* generate return on the first attempt, the model's generation routine
\* having run exactly once.
C13_NonEmptyReturnsAtOnce ==
    [][(FirstAttemptMinZero /\ ag_call'.raw # <<>>)
          => ag_call'.pc = "returned"]_vars

\* C13 amended: with min_length = 0, any decoded output that is non-empty
\* once its leading whitespace is stripped makes generate return on the
\* first attempt, the model's generation routine having run exactly once.
C13_NonBlankReturnsAtOnce ==
    [][(FirstAttemptMinZero /\ \E i \in 1..Len(ag_call'.raw) : ag_call'.raw[i] # " ")
          => /\ ag_call'.pc = "returned"
             /\ ag_call'.gen_calls = 1
             /\ ag_call'.value # <<>>]_vars

\* generate with min_length = 0 returned a one-character text at once
C13_Witness ==
    /\ Returned
    /\ ag_call.args.min_length = <<0>>
    /\ ag_call.gen_calls = 1
    /\ Len(ag_call.value) = 1

\* the text of the attempt just made passes the length filter
Passes(call) ==
    LET text == StripLeading(call.raw)
    IN  IF call.args.min_length # <<>> /\ call.args.min_length[1] # 0
        THEN Len(text) > call.args.min_length[1]
        ELSE Len(text) > 0

\* C14: the retry loop has no cap: a turn of the loop returns if and only if
\* its candidate survives the filter, otherwise the loop goes on without
\* raising, however many attempts were made; another attempt is always
\* possible while the loop runs.
C14_NoAttemptCap ==
    /\ [](ag_call.pc = "loop" => ENABLED GenerateAttempt)
    /\ [][ag_call.pc = "loop" =>
             /\ ag_call'.pc \in {"loop", "returned"}
             /\ ag_call'.err = "none"
             /\ ag_call'.pc = "returned" <=> Passes(ag_call')
             /\ ag_call'.gen_calls > ag_call.gen_calls
                  \/ ag_call'.gen_calls = MaxAttempts + 1]_vars

\* more than MaxAttempts attempts were filtered out and the loop still runs
C14_Witness ==
    /\ ag_call.op = "generate"
    /\ ag_call.pc = "loop"
    /\ ag_call.gen_calls = MaxAttempts + 1

\* C15 as stated: for every seed given to generate, 0 included, the random
\* seed is fixed to it before the first model generation, and on return the
\* random state has been restored exactly once whatever the number of
\* retries; with no seed neither set_seed nor reset_seed is called.
C15_SeedSetAndRestored ==
    ag_call.op = "generate" =>
        LET seed == ag_call.args.seed
        IN  /\ (seed # <<>> /\ ag_call.pc = "loop")
                 => /\ ag_env.seed = seed
                    /\ Count(ag_call.log, "set_seed") = 1
            /\ (seed # <<>> /\ ag_call.pc = "returned")
                 => /\ ag_env.seed = <<>>
                    /\ Count(ag_call.log, "set_seed") = 1
                    /\ Count(ag_call.log, "reset_seed") = 1
            /\ seed = <<>>
                 => /\ Count(ag_call.log, "set_seed") = 0
                    /\ Count(ag_call.log, "reset_seed") = 0

\* C28: in "rnn" mode self.memory is updated by exactly one forward pass per
\* call, seeded with the previous memory when there is one, before the first
\* generation attempt, and no attempt or retry changes it; in any other mode
\* generate leaves self.memory unchanged.  Every generation attempt of a call
\* is passed the same self.memory value.
C28_MemoryUpdatedOncePerRnnCall ==
    (ag_call.op = "generate" /\ ag_call.pc # "raised") =>
        /\ IF ag_call.args.mode = "rnn"
           THEN /\ Count(ag_call.log, "forward") = 1
                /\ ag_self.memory = IF ag_call.memory_in = <<>> THEN <<1>>
                                    ELSE <<ag_call.memory_in[1] + 1>>
           ELSE /\ Count(ag_call.log, "forward") = 0
                /\ ag_self.memory = ag_call.memory_in
        /\ ag_call.states \subseteq {ag_self.memory}
        /\ ag_call.gen_calls > 0 => ag_call.states = {ag_self.memory}

\* a second "rnn" call returned after a retry: its forward pass was seeded
\* with the memory of the first and both attempts were handed the new memory
C28_Witness ==
    /\ ag_call.op = "generate"
    /\ ag_call.pc = "returned"
    /\ ag_call.args.mode = "rnn"
    /\ ag_call.memory_in = <<1>>
    /\ ag_self.memory = <<2>>
    /\ ag_call.gen_calls = 2
    /\ ag_call.states = {<<2>>}

\* C30: generate leaves the process-wide gradient-tracking flag as it found
\* it on every return path, in any mode: gradient tracking is enabled after
\* any sequence of generate calls.
C30_GradFlagRestored ==
    (ag_call.op = "generate" /\ ag_call.pc = "returned") => ag_env.grad_enabled

-----------------------------------------------------------------------------
(* Claims checked under SpecInit *)

\* construction from a model_folder, no config object, config.json missing
FolderWithoutConfig ==
    /\ ag_call.op = "init"
    /\ ~ag_call.args.config
    /\ ag_call.args.model_folder
    /\ ~ag_call.args.files.config_json

\* C16: construction with a model_folder (and no config object) whose
\* config.json is missing fails with a not-found error naming the folder,
\* whatever weights files the folder holds, before any weights file is read
\* and before any model-loading call.
C16_MissingConfigFailsFirst ==
    FolderWithoutConfig =>
        /\ ag_call.pc = "raised"
        /\ ~ag_self.exists
        /\ ag_call.err =
              (IF ag_call.args.files.bin \/ ag_call.args.files.safetensors
               THEN "There is no config.json in model_folder."
               ELSE "There is no pytorch_model.bin or model.safetensors file found in model_folder.")
        /\ ag_call.err_names = <<"model_folder">>
        /\ ag_call.log = <<>>
        /\ ag_self.source = "none"

\* the folder holds both weights files, adapters are requested, and the
\* construction failed on the missing config.json
C16_Witness ==
    /\ FolderWithoutConfig
    /\ ag_call.args.files.bin
    /\ ag_call.args.files.safetensors
    /\ Len(ag_call.args.adapters) = MaxAdapters
    /\ ag_call.err = "There is no config.json in model_folder."

\* the model was loaded, more than one adapter was attached, and combining
\* them failed
MergeFailed ==
    /\ ag_call.op = "init"
    /\ Len(ag_call.args.adapters) > 1
    /\ ag_call.args.merge_fails

\* C17: when more than one adapter is requested and combining them fails, the
\* failure is caught and logged, construction still completes, no merged
\* adapter exists, and the model keeps every adapter attached before the
\* failure.
C17_MergeFailureKeepsAdapters ==
    MergeFailed =>
        /\ \E i \in 1..Len(ag_call.log) : ag_call.log[i] = "print(traceback)"
        /\ ag_call.pc = "returned"
        /\ ag_self.exists
        /\ \A i \in 1..Len(ag_self.adapters) : ag_self.adapters[i] # combined
        /\ \A k \in 1..Len(ag_call.args.adapters) :
              \E i \in 1..Len(ag_self.adapters) :
                 ag_self.adapters[i] = ag_call.args.adapters[k]

-----------------------------------------------------------------------------
(* Claims checked under SpecTrain *)

\* the place of the first event e in a log, 0 when there is none
Place(log, e) ==
    IF HasEvent(log, e) THEN CHOOSE i \in 1..Len(log) :
                                 log[i] = e /\ \A j \in 1..(i - 1) : log[j] # e
    ELSE 0

\* train(num_steps=1, one static dataset, save_every=1), all else default, on
\* a model that is not distributed
SmallestTraining(a) ==
    /\ a.num_steps = 1
    /\ a.save_every = 1
    /\ a.static_data = 1
    /\ a.seed = <<>>
    /\ ~a.petals
    /\ a.strategy
    /\ ~ag_self.petals

\* C18: train with num_steps=1, one static dataset and save_every=1 runs
\* dataset preparation, parameter grouping, optimizer and schedule
\* construction, the fit loop and the final save in that order and returns
\* normally, leaving exactly one saved artifact in output_dir; a later save
\* does not raise.
C18_SmallestTrainingRuns ==
    /\ (ag_call.op = "train" /\ SmallestTraining(ag_call.args))
         => /\ ag_call.pc = "returned"
            /\ ag_call.err = "none"
            /\ 0 < Place(ag_call.log, "prepare_datasets")
            /\ Place(ag_call.log, "prepare_datasets") < Place(ag_call.log, "_get_params")
            /\ Place(ag_call.log, "_get_params") < Place(ag_call.log, "get_optimizer")
            /\ Place(ag_call.log, "get_optimizer") < Place(ag_call.log, "get_schedule")
            /\ Place(ag_call.log, "get_schedule") < Place(ag_call.log, "trainer.fit")
            /\ Place(ag_call.log, "trainer.fit") < Place(ag_call.log, "save")
            /\ ag_env.artifacts = 1
    /\ (ag_call.op = "save" /\ SmallestTraining(ag_call.args))
         => /\ ag_call.pc = "returned"
            /\ HasEvent(ag_call.log, "trainer.fit")
            /\ ag_env.artifacts = 1

\* C19: a train call completes its fit loop, and after it the model is saved
\* to output_dir if and only if the model is not using the distributed
\* backend, for every combination of the petals flag given at construction
\* and the petals argument given to train.
C19_SavedIffNotDistributed ==
    ag_call.op = "train" =>
        /\ HasEvent(ag_call.log, "trainer.fit")
        /\ (Place(ag_call.log, "save") > Place(ag_call.log, "trainer.fit"))
              <=> ~ag_self.petals

\* the groups the claim describes: one per parameter that requires
\* gradients, decay 0 for bias and LayerNorm.weight names and the call's
\* weight_decay for the others
RECURSIVE ClaimedGroups(_, _)
ClaimedGroups(parameters, weight_decay) ==
    IF parameters = <<>> THEN <<>>
    ELSE LET p == Head(parameters)
             rest == ClaimedGroups(Tail(parameters), weight_decay)
         IN  IF ~p.requires_grad THEN rest
             ELSE <<[params |-> p.name,
                     weight_decay |-> IF NoDecay(p.name) THEN 0 ELSE weight_decay]>>
                  \o rest

\* C24: the parameter groups that train passes to the optimizer factory
\* contain exactly one group for each model parameter that requires gradients
\* and none for frozen parameters; a group's weight decay is 0 when the
\* parameter's name contains "bias" or "LayerNorm.weight" and the call's
\* weight_decay otherwise, and computing the groups completes without error.
C24_GroupsPerTrainableParameter ==
    ag_call.op = "train" =>
        /\ Place(ag_call.log, "_get_params") < Place(ag_call.log, "get_optimizer")
        /\ ag_call.value.groups =
              <<ClaimedGroups(ModelParameters, ag_call.args.weight_decay)>>

\* the interval halved, rounding down, the fewest times that make it no
\* greater than n
RECURSIVE HalvedInterval(_, _)
HalvedInterval(interval, n) ==
    IF interval > n THEN HalvedInterval(interval \div 2, n) ELSE interval

\* C25: with static training data and a configured interval
\* I = val_interval * gradient_accumulation_steps, the interval given to the
\* trainer is I when I <= n, the length of the first static train loader, and
\* otherwise I halved, rounding down, the fewest times that make it no
\* greater than n.
C25_IntervalHalvedUntilFits ==
    (ag_call.op = "train" /\ ag_call.args.static_data > 0) =>
        ag_call.value.interval =
            <<HalvedInterval(ag_call.args.val_interval
                                * ag_call.args.gradient_accumulation_steps,
                             ag_call.args.first_len)>>

-----------------------------------------------------------------------------
(* Claims checked under SpecCache *)

\* C21: for every TokenDataset with tokens, every destination name and either
\* value of compress, save followed by a from_cache construction from the
\* file that save wrote yields the same flat token array: the file is
\* gzip-compressed exactly when its name ends in the gzip suffix.
C21_CacheRoundTrip ==
    td_result.op = "load" =>
        /\ ag_env.cache_file[1].gz = EndsWithGz(ag_env.cache_file[1].name)
        /\ td_result.status = "ok"
        /\ td_result.obj # <<>>
        /\ td_result.obj[1].tokens = datasets[1].tokens

-----------------------------------------------------------------------------
(* Claims checked under SpecStr *)

\* C22: for a TokenDataset or StaticDataset built in any construction mode,
\* str(dataset) returns the source file path when the dataset was built from
\* a file and the literal "loaded dataset" otherwise, and never raises.
C22_StrNamesSource ==
    td_result.op = "str" =>
        /\ td_result.status = "ok"
        /\ td_result.value =
              (IF td_result.mode \in {"line_by_line", "bulk"}
               THEN <<SourcePath>> ELSE <<"loaded dataset">>)

-----------------------------------------------------------------------------
(* Claims checked under SpecPrepare *)

Prepared == ag_call.op = "prepare_datasets"

\* what holds of the loaders collected and of the validation source, in the
\* claim as stated and as amended: one train loader per static and per
\* streaming entry, one validation loader per static entry; the validation
\* source is absent exactly when static_data is empty, a single validation
\* loader passes through, several are combined
LoadersAndValidation ==
    LET f == ag_call.value
        a == ag_call.args
    IN  /\ Len(f.total_train) = Len(a.static_data) + a.streaming
        /\ Len(f.total_val) = Len(a.static_data)
        /\ f.combined_val = <<>> <=> a.static_data = <<>>
        /\ f.combined_val # <<>>
              => /\ f.combined_val[1].loaders = f.total_val
                 /\ f.combined_val[1].combined <=> Len(a.static_data) > 1

\* C26 as stated: the train loaders are combined under the shortest-of-all
\* policy exactly when more than one static-data train loader exists, and a
\* single loader passes through unchanged.
C26_CombinedIffSeveralStatic ==
    Prepared =>
        /\ LoadersAndValidation
        /\ ag_call.value.combined_train[1].loaders = ag_call.value.total_train
        /\ ag_call.value.combined_train[1].combined
              <=> Len(ag_call.args.static_data) > 1

\* C26 amended: the train loaders are combined exactly when more than one
\* train loader, static or streaming, exists.
C26_CombinedIffSeveralLoaders ==
    Prepared =>
        /\ LoadersAndValidation
        /\ ag_call.value.combined_train[1].loaders = ag_call.value.total_train
        /\ ag_call.value.combined_train[1].combined
              <=> Len(ag_call.args.static_data) + ag_call.args.streaming > 1

\* two streaming sources and no static data were prepared without error: two
\* train loaders, combined, and no validation source
C26_Witness ==
    /\ Prepared
    /\ ag_call.pc = "returned"
    /\ ag_call.args.static_data = <<>>
    /\ ag_call.args.streaming = 2
    /\ ag_call.value.combined_train[1].combined
    /\ ag_call.value.combined_val = <<>>

RECURSIVE SumSeq(_)
SumSeq(q) == IF q = <<>> THEN 0 ELSE Head(q) + SumSeq(Tail(q))

\* C27: the static count is the total number of examples of the static
\* datasets and, when it is positive, the total batch count is the sum of the
\* batch counts of the static train loaders only; streaming loaders
\* contribute to neither, so prepare_datasets completes without error when
\* static and streaming sources are supplied together.
C27_StaticCountsOnly ==
    Prepared =>
        LET f == ag_call.value
            a == ag_call.args
            static_batches ==
                SumSeq([i \in 1..Len(a.static_data) |-> f.total_train[i].len[1]])
        IN  /\ ag_call.pc = "returned"
            /\ f.static_len = <<SumSeq(a.static_data)>>
            /\ SumSeq(a.static_data) > 0 => f.total_batches = <<static_batches>>

-----------------------------------------------------------------------------
(* Claims checked under SpecLife *)

\* C29: after any sequence of construction, train, save and generate calls
\* the model is in evaluation mode whenever generate invokes it, every
\* operation that puts the model into training mode returning it to
\* evaluation mode before it returns.
C29_EvalModeWhenGenerating ==
    (ag_call.op = "generate" /\ ag_call.pc = "loop") => ~ag_self.training


====
